---- MODULE Spec2Model ----
(***************************************************************************)
(* Model of the KiCad "Connect traces" action plugin (plugins/connect.py). *)
(*                                                                         *)
(* The plugin takes the two selected tracks of the board, computes the     *)
(* point where their infinite lines meet and moves one endpoint of each    *)
(* track onto that point.  The geometry is computed with Python floats     *)
(* (IEEE-754 binary64, round to nearest, ties to even) and truncated to    *)
(* integers at the very end, so the model carries its own binary64         *)
(* arithmetic: a float is a sign, an odd natural mantissa of at most 53    *)
(* bits and a binary exponent, the mantissa being a little-endian sequence *)
(* of 15-bit limbs.                                                        *)
(***************************************************************************)
EXTENDS Integers, Sequences, FiniteSets

(***************************************************************************)
(* Let(x, F) is F at the value of x.  An operator argument and a LET       *)
(* definition stand for their expression, which TLC may evaluate again at  *)
(* every use; a bound variable stands for a value.  The arithmetic below   *)
(* binds each intermediate result, so that it is computed once.            *)
(***************************************************************************)
Let(x, F(_)) == CHOOSE r \in {F(v) : v \in {x}} : TRUE

Let2(x, y, F(_, _)) == CHOOSE r \in {F(v, w) : v \in {x}, w \in {y}} : TRUE

(***************************************************************************)
(* Natural numbers of arbitrary size (mantissas and their products):       *)
(* little-endian sequences of limbs below Base, the last limb not zero.    *)
(***************************************************************************)
LimbBits == 15

Base == 32768

RECURSIVE Pow2(_)
Pow2(k) == IF k = 0 THEN 1 ELSE 2 * Pow2(k - 1)

Abs(i) == IF i < 0 THEN -i ELSE i

Min(i, j) == IF i < j THEN i ELSE j

Max(i, j) == IF i < j THEN j ELSE i

\* the sequence a of limbs without its high zero limbs
RECURSIVE BNormV(_)
BNormV(a) ==
    IF a = <<>> THEN <<>>
    ELSE IF a[Len(a)] = 0 THEN Let(SubSeq(a, 1, Len(a) - 1), BNormV)
    ELSE a

BNorm(a) == Let(a, BNormV)

RECURSIVE BFromNat(_)
BFromNat(n) == IF n = 0 THEN <<>> ELSE <<n % Base>> \o BFromNat(n \div Base)

RECURSIVE BToNat(_)
BToNat(a) == IF a = <<>> THEN 0 ELSE a[1] + Base * BToNat(Tail(a))

Limb(a, i) == IF i >= 1 /\ i <= Len(a) THEN a[i] ELSE 0

\* the limbs of the sequence of sums s, every s[i] + carry below Base * Base
RECURSIVE CarryFrom(_, _, _)
CarryFrom(s, i, carry) ==
    IF i > Len(s) THEN BFromNat(carry)
    ELSE Let(s[i] + carry,
             LAMBDA t : <<t % Base>> \o CarryFrom(s, i + 1, t \div Base))

Carry(s) == Let(s, LAMBDA sv : CarryFrom(sv, 1, 0))

RECURSIVE BCmpFrom(_, _, _)
BCmpFrom(a, b, i) ==
    IF i = 0 THEN 0
    ELSE IF a[i] < b[i] THEN -1
    ELSE IF a[i] > b[i] THEN 1
    ELSE BCmpFrom(a, b, i - 1)

\* -1, 0 or 1 as a < b, a = b or a > b
BCmp(a, b) ==
    Let2(a, b, LAMBDA x, y :
        IF Len(x) < Len(y) THEN -1
        ELSE IF Len(x) > Len(y) THEN 1
        ELSE BCmpFrom(x, y, Len(x)))

BAdd(a, b) ==
    Let2(a, b, LAMBDA x, y :
        Carry([i \in 1..Max(Len(x), Len(y)) |-> Limb(x, i) + Limb(y, i)]))

\* a - b, the limbs of a >= b and of b being values
RECURSIVE BSubFrom(_, _, _, _)
BSubFrom(a, b, i, borrow) ==
    IF i > Len(a) THEN <<>>
    ELSE Let(a[i] - Limb(b, i) - borrow,
             LAMBDA d : IF d < 0 THEN <<d + Base>> \o BSubFrom(a, b, i + 1, 1)
                        ELSE <<d>> \o BSubFrom(a, b, i + 1, 0))

BSub(a, b) == Let2(a, b, LAMBDA x, y : BNorm(BSubFrom(x, y, 1, 0)))

\* a * d, for a limb d < Base
BMulLimb(a, d) ==
    Let2(a, d, LAMBDA x, y :
        IF y = 0 \/ x = <<>> THEN <<>>
        ELSE Carry([i \in 1..Len(x) |-> x[i] * y]))

Zeros(n) == [i \in 1..n |-> 0]

RECURSIVE BMulFrom(_, _, _)
BMulFrom(a, b, i) ==
    IF i > Len(b) THEN <<>>
    ELSE BAdd(IF b[i] = 0 THEN <<>> ELSE Zeros(i - 1) \o BMulLimb(a, b[i]),
              BMulFrom(a, b, i + 1))

BMul(a, b) ==
    Let2(a, b, LAMBDA x, y :
        IF x = <<>> \/ y = <<>> THEN <<>> ELSE BMulFrom(x, y, 1))

\* a * 2^k
BShl(a, k) ==
    Let2(a, k, LAMBDA x, n :
        IF x = <<>> THEN <<>>
        ELSE Zeros(n \div LimbBits) \o BMulLimb(x, Pow2(n % LimbBits)))

\* a \div 2^k
BShr(a, k) ==
    Let2(a, k, LAMBDA x, n :
        Let2(n \div LimbBits, Pow2(n % LimbBits), LAMBDA q, lo :
            IF q >= Len(x) THEN <<>>
            ELSE BNorm([i \in 1..(Len(x) - q) |->
                           x[i + q] \div lo
                             + (Limb(x, i + q + 1) % lo) * (Base \div lo)])))

RECURSIVE BitLenNat(_)
BitLenNat(n) == IF n = 0 THEN 0 ELSE 1 + BitLenNat(n \div 2)

BBitLen(a) ==
    Let(a, LAMBDA x :
        IF x = <<>> THEN 0 ELSE LimbBits * (Len(x) - 1) + BitLenNat(x[Len(x)]))

\* bit k (counted from 0) of a
BBit(a, k) == (Limb(a, k \div LimbBits + 1) \div Pow2(k % LimbBits)) % 2

RECURSIVE TrailingZerosNat(_)
TrailingZerosNat(n) == IF n % 2 = 1 THEN 0 ELSE 1 + TrailingZerosNat(n \div 2)

RECURSIVE BTrailingZerosFrom(_, _)
BTrailingZerosFrom(a, i) ==
    IF a[i] = 0 THEN LimbBits + BTrailingZerosFrom(a, i + 1)
    ELSE TrailingZerosNat(a[i])

\* number of low zero bits of a # 0
BTrailingZeros(a) == BTrailingZerosFrom(a, 1)

(***************************************************************************)
(* Python floats: binary64, round to nearest, ties to even.  A finite      *)
(* float is sgn * man * 2^exp with man odd (or zero, written with exp 0    *)
(* and sgn 1: -0.0 == 0.0 and int(-0.0) == 0, so the program cannot tell   *)
(* the two zeros apart).  The exponent range of binary64 is not bounded    *)
(* here: track coordinates are 32-bit integers, far from over/underflow.   *)
(***************************************************************************)
MantBits == 53

FZero == [kind |-> "fin", sgn |-> 1, man |-> <<>>, exp |-> 0]

INF == [kind |-> "inf", sgn |-> 1, man |-> <<>>, exp |-> 0]

\* the float sgn * m * 2^e of an exactly representable value
FCanon(s, m, e) ==
    Let(m, LAMBDA mv :
        IF mv = <<>> THEN FZero
        ELSE Let(BTrailingZeros(mv), LAMBDA tz :
                 [kind |-> "fin", sgn |-> s, man |-> BShr(mv, tz), exp |-> e + tz]))

\* the float nearest to sgn * (m + f) * 2^e, where 0 <= f < 1 and
\* sticky says whether f > 0
FRound(s, m, e, sticky) ==
    Let2(m, BBitLen(m) - MantBits, LAMBDA mv, d :
        IF d <= 0 THEN FCanon(s, mv, e)
        ELSE Let(BShr(mv, d), LAMBDA t :
                 LET half  == BBit(mv, d - 1) = 1
                     below == sticky \/ BTrailingZeros(mv) < d - 1
                     odd   == BBit(t, 0) = 1
                 IN  FCanon(s,
                            IF half /\ (below \/ odd) THEN BAdd(t, <<1>>) ELSE t,
                            e + d)))

\* float(i) for a Python int
FromInt(i) == FCanon(IF i < 0 THEN -1 ELSE 1, BFromNat(Abs(i)), 0)

FNeg(a) == Let(a, LAMBDA x : IF x.man = <<>> THEN x ELSE [x EXCEPT !.sgn = -x.sgn])

\* x + y for floats given as values
FAddV(x, y) ==
    Let(Min(x.exp, y.exp), LAMBDA e :
        Let2(BShl(x.man, x.exp - e), BShl(y.man, y.exp - e), LAMBDA mx, my :
            IF x.sgn = y.sgn THEN FRound(x.sgn, BAdd(mx, my), e, FALSE)
            ELSE Let(BCmp(mx, my), LAMBDA c :
                     IF c = 0 THEN FZero
                     ELSE IF c > 0 THEN FRound(x.sgn, BSub(mx, my), e, FALSE)
                     ELSE FRound(y.sgn, BSub(my, mx), e, FALSE))))

FAdd(a, b) == Let2(a, b, FAddV)

FSub(a, b) == Let2(a, FNeg(b), FAddV)

FMulV(x, y) ==
    FRound(x.sgn * y.sgn, BMul(x.man, y.man), x.exp + y.exp, FALSE)

FMul(a, b) == Let2(a, b, FMulV)

\* one step of binary long division by d: the next quotient bit is shifted
\* into st.quo, and st.rem becomes twice what is left of it
DivStep(st, d) ==
    IF BCmp(st.rem, d) >= 0
    THEN [quo |-> BAdd(BShl(st.quo, 1), <<1>>), rem |-> BShl(BSub(st.rem, d), 1)]
    ELSE [quo |-> BShl(st.quo, 1), rem |-> BShl(st.rem, 1)]

\* k steps of long division of the values st and d; from [quo |-> 0,
\* rem |-> n], with n and d of equal bit length, quo ends as
\* floor(n * 2^(k-1) / d).  Once nothing is left the remaining quotient bits
\* are zeros.
RECURSIVE DivBits(_, _, _)
DivBits(st, d, k) ==
    IF k = 0 THEN st
    ELSE IF k = 1 THEN DivStep(st, d)
    ELSE Let(DivBits(st, d, k \div 2), LAMBDA mid :
             IF mid.rem = <<>>
             THEN [quo |-> BShl(mid.quo, k - k \div 2), rem |-> <<>>]
             ELSE DivBits(mid, d, k - k \div 2))

\* x / y for y # 0
FDivV(x, y) ==
    IF x.man = <<>> THEN FZero
    ELSE LET lx == BBitLen(x.man)
             ly == BBitLen(y.man)
             sx == Max(0, ly - lx)
             sy == Max(0, lx - ly)
             n  == MantBits + 3
         IN  Let2([quo |-> <<>>, rem |-> BShl(x.man, sx)], BShl(y.man, sy),
                  LAMBDA st, d :
                      Let(DivBits(st, d, n + 1), LAMBDA qr :
                          FRound(x.sgn * y.sgn, qr.quo,
                                 x.exp - y.exp + sy - sx - n, qr.rem # <<>>)))

FDiv(a, b) == Let2(a, b, FDivV)

FEq(a, b) == a = b

\* int(x): truncation toward zero
FTrunc(a) ==
    Let(a, LAMBDA x :
        IF x.exp >= 0 THEN x.sgn * BToNat(BShl(x.man, x.exp))
        ELSE x.sgn * BToNat(BShr(x.man, -x.exp)))

(***************************************************************************)
(* The geometry of connect.py.  A Point is a pair <<x, y>> of integers, a  *)
(* track has a start, an end and a layer (TrackProxy).                     *)
(***************************************************************************)
X(p) == p[1]

Y(p) == p[2]

\* slope with the quotient of the integers taken by floor division
slope_floordiv(track) ==
    LET delta_x == X(track.end) - X(track.start)
        delta_y == Y(track.end) - Y(track.start)
    IN  IF delta_x = 0 THEN INF
        ELSE FromInt(delta_y \div delta_x)

\* TrackProxy.slope
slope(track) ==
    LET delta_x == X(track.end) - X(track.start)
        delta_y == Y(track.end) - Y(track.start)
    IN  IF delta_x = 0 THEN INF
        ELSE FDiv(FromInt(delta_y), FromInt(delta_x))

Horizontal(track) == [type |-> "Horizontal", y |-> Y(track.start)]

Vertical(track) == [type |-> "Vertical", x |-> X(track.start)]

Slanted(track) ==
    Let(slope(track), LAMBDA m :
        [type |-> "Slanted", m |-> m,
         n |-> FSub(FromInt(Y(track.start)), FMul(m, FromInt(X(track.start))))])

line_factory(track) ==
    Let(slope(track), LAMBDA s :
        IF FEq(s, FZero) THEN Horizontal(track)
        ELSE IF FEq(s, INF) THEN Vertical(track)
        ELSE Slanted(track))

\* squared distance between two points
distance(a, b) ==
    (X(b) - X(a)) * (X(b) - X(a)) + (Y(b) - Y(a)) * (Y(b) - Y(a))

\* find_intersection._colinear
colinear(track_a, track_b) ==
    IF distance(track_b.start, track_a.start) < distance(track_b.start, track_a.end)
    THEN track_a.start
    ELSE track_a.end

ParallelMsg == "Lines are parallel and wont connect."

UnhandledMsg == "Unhandled combination"

Raise(msg) == [raised |-> TRUE, msg |-> msg]

\* a returned point; path tells which return statement produced it
Return(pt, path) == [raised |-> FALSE, point |-> pt, path |-> path]

\* the final "return int(x), int(y)"
Cast(x, y) == Return(<<FTrunc(x), FTrunc(y)>>, "computed")

\* find_intersection once line_a and line_b are made
intersection_of(track_a, track_b, line_a, line_b) ==
    LET ta == line_a.type
        tb == line_b.type
    IN  IF ta = "Horizontal" /\ tb = "Horizontal" THEN
            IF line_a.y = line_b.y
            THEN Return(colinear(track_a, track_b), "colinear")
            ELSE Raise(ParallelMsg)
        ELSE IF ta = "Horizontal" /\ tb = "Vertical" THEN
            Cast(FromInt(line_b.x), FromInt(line_a.y))
        ELSE IF ta = "Horizontal" /\ tb = "Slanted" THEN
            Let(FromInt(line_a.y), LAMBDA y :
                Cast(FDiv(FSub(y, line_b.n), line_b.m), y))
        ELSE IF ta = "Vertical" /\ tb = "Horizontal" THEN
            Cast(FromInt(line_a.x), FromInt(line_b.y))
        ELSE IF ta = "Vertical" /\ tb = "Vertical" THEN
            IF line_a.x = line_b.x
            THEN Return(colinear(track_a, track_b), "colinear")
            ELSE Raise(ParallelMsg)
        ELSE IF ta = "Vertical" /\ tb = "Slanted" THEN
            Let(FromInt(line_a.x), LAMBDA x :
                Cast(x, FAdd(FMul(line_b.m, x), line_b.n)))
        ELSE IF ta = "Slanted" /\ tb = "Horizontal" THEN
            Let(FromInt(line_b.y), LAMBDA y :
                Cast(FDiv(FSub(y, line_a.n), line_a.m), y))
        ELSE IF ta = "Slanted" /\ tb = "Vertical" THEN
            Let(FromInt(line_b.x), LAMBDA x :
                Cast(x, FAdd(FMul(line_a.m, x), line_a.n)))
        ELSE IF ta = "Slanted" /\ tb = "Slanted" THEN
            LET m1 == line_a.m
                n1 == line_a.n
                m2 == line_b.m
                n2 == line_b.n
            IN  IF FEq(m1, m2) THEN
                    IF FEq(n1, n2)
                    THEN Return(colinear(track_a, track_b), "colinear")
                    ELSE Raise(ParallelMsg)
                ELSE Let(FDiv(FSub(n2, n1), FSub(m1, m2)), LAMBDA x :
                         Cast(x, FAdd(FMul(m1, x), n1)))
        ELSE Raise(UnhandledMsg)

find_intersection(track_a, track_b) ==
    Let2(line_factory(track_a), line_factory(track_b),
         LAMBDA line_a, line_b : intersection_of(track_a, track_b, line_a, line_b))

\* extend_to with "<=": on a tie the start is overwritten
extend_to_tie_start(track, point) ==
    LET dist_start == distance(point, track.start)
        dist_end   == distance(point, track.end)
    IN  IF dist_start <= dist_end
        THEN [track EXCEPT !.start = point]
        ELSE [track EXCEPT !.end = point]

\* extend_to with ">": the farther endpoint is overwritten
extend_to_farther(track, point) ==
    LET dist_start == distance(point, track.start)
        dist_end   == distance(point, track.end)
    IN  IF dist_start > dist_end
        THEN [track EXCEPT !.start = point]
        ELSE [track EXCEPT !.end = point]

\* extend_to without the comparison: the start is always overwritten
extend_to_always_start(track, point) == [track EXCEPT !.start = point]

extend_to(track, point) ==
    LET dist_start == distance(point, track.start)
        dist_end   == distance(point, track.end)
    IN  IF dist_start < dist_end
        THEN [track EXCEPT !.start = point]
        ELSE [track EXCEPT !.end = point]

WrongAmountMsg == "Wrong amount of tracks, must select 2."

LayersMsg == "Tracks are on different layers."

\* the tracks of the board that are selected, in board order
selected_tracks(board, sel) ==
    SelectSeq([i \in 1..Len(board) |-> i], LAMBDA i : i \in sel)

\* _run with each track extended to the intersection computed from its own
\* side: find_intersection(a, b) for a, find_intersection(b, a) for b
run_own_points(board, sel) ==
    LET ids == selected_tracks(board, sel)
    IN  IF Len(ids) # 2 THEN [msg |-> WrongAmountMsg, board |-> board]
        ELSE LET a == board[ids[1]]
                 b == board[ids[2]]
             IN  IF a.layer # b.layer
                 THEN [msg |-> LayersMsg, board |-> board]
                 ELSE Let2(find_intersection(a, b), find_intersection(b, a),
                           LAMBDA for_a, for_b :
                               IF for_a.raised
                               THEN [msg |-> for_a.msg, board |-> board]
                               ELSE IF for_b.raised
                               THEN [msg |-> for_b.msg, board |-> board]
                               ELSE [msg   |-> "ok",
                                     board |-> [board EXCEPT
                                         ![ids[1]] = extend_to(a, for_a.point),
                                         ![ids[2]] = extend_to(b, for_b.point)]])

\* _run with the layers compared after the tracks are extended
run_layers_late(board, sel) ==
    LET ids == selected_tracks(board, sel)
    IN  IF Len(ids) # 2 THEN [msg |-> WrongAmountMsg, board |-> board]
        ELSE LET a == board[ids[1]]
                 b == board[ids[2]]
             IN  Let(find_intersection(a, b), LAMBDA intersection :
                     IF intersection.raised
                     THEN [msg |-> intersection.msg, board |-> board]
                     ELSE LET extended == [board EXCEPT
                                  ![ids[1]] = extend_to(a, intersection.point),
                                  ![ids[2]] = extend_to(b, intersection.point)]
                          IN  IF a.layer # b.layer
                              THEN [msg |-> LayersMsg, board |-> extended]
                              ELSE [msg |-> "ok", board |-> extended])

\* ConnectTraces._run on a board (a sequence of tracks) with the set sel of
\* selected positions: the message of the error raised, or "ok", and the
\* board it leaves
run(board, sel) ==
    LET ids == selected_tracks(board, sel)
    IN  IF Len(ids) # 2 THEN [msg |-> WrongAmountMsg, board |-> board]
        ELSE LET a == board[ids[1]]
                 b == board[ids[2]]
             IN  IF a.layer # b.layer
                 THEN [msg |-> LayersMsg, board |-> board]
                 ELSE Let(find_intersection(a, b), LAMBDA intersection :
                          IF intersection.raised
                          THEN [msg |-> intersection.msg, board |-> board]
                          ELSE [msg   |-> "ok",
                                board |-> [board EXCEPT
                                    ![ids[1]] = extend_to(a, intersection.point),
                                    ![ids[2]] = extend_to(b, intersection.point)]])

(***************************************************************************)
(* Bounds.  Boards are either NTracks tracks on the coarse grid            *)
(* 0..MaxCoord x 0..MaxCoord or two tracks on the fine grid                *)
(* -MaxX..MaxX x 0..MaxY, whose slopes include thirds and quarters, which  *)
(* binary64 rounds.  The functions of one track are applied on the grid    *)
(* -MaxC..MaxC x -MaxC..MaxC; line_factory also on tracks that reach the   *)
(* points with x = -MaxFar or MaxFar, whose slopes are as small as         *)
(* 1 / (2 * MaxFar).                                                       *)
(***************************************************************************)
NTracks == 3

NLayers == 2

MaxCoord == 1

MaxX == 2

MaxY == 1

MaxC == 2

MaxFar == 536870911

MaxRuns == 1

MaxCalls == 2

Layers == 1..NLayers

CoarsePoints == (0..MaxCoord) \X (0..MaxCoord)

FinePoints == ((-MaxX)..MaxX) \X (0..MaxY)

WidePoints == ((-MaxC)..MaxC) \X ((-MaxC)..MaxC)

FarPoints == {-MaxFar, MaxFar} \X (0..1)

\* the tracks with start # end between points of P, on the layers L
TracksOn(P, L) ==
    {[start |-> s, end |-> e, layer |-> l] : s \in P, e \in P, l \in L}
        \ {[start |-> s, end |-> s, layer |-> l] : s \in P, l \in L}

(***************************************************************************)
(* State.  tracks is the board (pcb.GetTracks()), selected the positions   *)
(* of the tracks with IsSelected().  The rest records the last operation:  *)
(* status its outcome, before the board it started from (for extend_to:   *)
(* the track before the last call with a new point), point the argument of *)
(* extend_to, again whether the last call repeated the previous one, lines *)
(* and found what line_factory and find_intersection returned.             *)
(***************************************************************************)
VARIABLES tracks, selected, status, before, calls, point, again, lines, found

vars == <<tracks, selected, status, before, calls, point, again, lines, found>>

Idle ==
    /\ status = "idle"
    /\ before = tracks
    /\ calls = 0
    /\ point = <<0, 0>>
    /\ again = FALSE
    /\ lines = <<>>
    /\ found = <<>>

(***************************************************************************)
(* The plugin: the user selects tracks and presses the button.             *)
(***************************************************************************)
Init ==
    /\ tracks \in [1..NTracks -> TracksOn(CoarsePoints, Layers)]
                    \cup [1..2 -> TracksOn(FinePoints, Layers)]
    /\ selected = {}
    /\ Idle

\* ConnectTraces.Run with the selection sel
Run(sel) ==
    /\ calls < MaxRuns
    /\ \E r \in {run(tracks, sel)} :
           /\ tracks' = r.board
           /\ status' = r.msg
    /\ selected' = sel
    /\ before' = tracks
    /\ calls' = calls + 1
    /\ UNCHANGED <<point, again, lines, found>>

Next == \E sel \in SUBSET DOMAIN tracks : Run(sel)

Spec == Init /\ [][Next]_vars

(***************************************************************************)
(* line_factory applied to one track.                                      *)
(***************************************************************************)
InitClassify ==
    /\ tracks \in [1..1 -> TracksOn(WidePoints \cup FarPoints, {1})]
    /\ selected = {}
    /\ Idle

Classify ==
    /\ calls = 0
    /\ lines' = [i \in DOMAIN tracks |-> line_factory(tracks[i])]
    /\ calls' = calls + 1
    /\ UNCHANGED <<tracks, selected, status, before, point, again, found>>

SpecClassify == InitClassify /\ [][Classify]_vars

(***************************************************************************)
(* find_intersection applied to two tracks, in both orders.                *)
(***************************************************************************)
InitIntersect ==
    /\ tracks \in [1..2 -> TracksOn(FinePoints, {1})]
    /\ selected = {}
    /\ Idle

FindIntersection ==
    /\ calls = 0
    /\ found' = <<find_intersection(tracks[1], tracks[2]),
                  find_intersection(tracks[2], tracks[1])>>
    /\ calls' = calls + 1
    /\ UNCHANGED <<tracks, selected, status, before, point, again, lines>>

SpecIntersect == InitIntersect /\ [][FindIntersection]_vars

(***************************************************************************)
(* extend_to applied to one track, again and again.                        *)
(***************************************************************************)
InitExtend ==
    /\ tracks \in [1..1 -> TracksOn(WidePoints, {1})]
    /\ selected = {}
    /\ Idle

\* extend_to(track, p)
ExtendTo(p) ==
    /\ calls < MaxCalls
    /\ tracks' = [tracks EXCEPT ![1] = extend_to(tracks[1], p)]
    /\ before' = tracks
    /\ point' = p
    /\ again' = FALSE
    /\ calls' = calls + 1
    /\ UNCHANGED <<selected, status, lines, found>>

\* the same call once more
ExtendAgain ==
    /\ calls > 0
    /\ calls < MaxCalls
    /\ tracks' = [tracks EXCEPT ![1] = extend_to(tracks[1], point)]
    /\ again' = TRUE
    /\ calls' = calls + 1
    /\ UNCHANGED <<selected, status, before, point, lines, found>>

NextExtend == (\E p \in WidePoints : ExtendTo(p)) \/ ExtendAgain

SpecExtend == InitExtend /\ [][NextExtend]_vars

(***************************************************************************)
(* Exact geometry on the integer coordinates, to state what the spec       *)
(* promises: the side of a point, parallel and equal lines, and the        *)
(* intersection as a pair of fractions truncated toward zero.              *)
(***************************************************************************)
Cross(u, v) == u[1] * v[2] - u[2] * v[1]

Dir(t) == <<X(t.end) - X(t.start), Y(t.end) - Y(t.start)>>

LinesParallel(a, b) == Cross(Dir(a), Dir(b)) = 0

SameLine(a, b) ==
    /\ LinesParallel(a, b)
    /\ Cross(Dir(a), <<X(b.start) - X(a.start), Y(b.start) - Y(a.start)>>) = 0

\* num / den truncated toward zero
TruncDiv(num, den) ==
    (IF (num < 0) = (den < 0) THEN 1 ELSE -1) * (Abs(num) \div Abs(den))

\* the point a.start + t * Dir(a) on the line of b, truncated
ExactPoint(a, b) ==
    LET den == Cross(Dir(a), Dir(b))
        tn  == Cross(<<X(b.start) - X(a.start), Y(b.start) - Y(a.start)>>, Dir(b))
    IN  <<TruncDiv(X(a.start) * den + tn * Dir(a)[1], den),
          TruncDiv(Y(a.start) * den + tn * Dir(a)[2], den)>>

\* the float f is num / den with a relative error of at most 2^-MantBits
NearRatio(f, num, den) ==
    /\ f.kind = "fin"
    /\ f.sgn = (IF (num < 0) = (den < 0) THEN 1 ELSE -1)
    /\ Let2(BShl(BMul(f.man, BFromNat(Abs(den))), Max(0, f.exp)),
            BShl(BFromNat(Abs(num)), Max(0, -f.exp)),
            LAMBDA l, r :
                Let(IF BCmp(l, r) >= 0 THEN BSub(l, r) ELSE BSub(r, l),
                    LAMBDA diff : BCmp(BShl(diff, MantBits), r) <= 0))

(***************************************************************************)
(* The last Run: the two tracks it was given, before and after.            *)
(***************************************************************************)
Pair == selected_tracks(before, selected)

Connected ==
    /\ calls > 0
    /\ Len(Pair) = 2
    /\ before[Pair[1]].layer = before[Pair[2]].layer

OldA == before[Pair[1]]

OldB == before[Pair[2]]

NewA == tracks[Pair[1]]

NewB == tracks[Pair[2]]

Ends(t) == {t.start, t.end}

\* C1: after a successful connect of two same-layer tracks some point is an
\* endpoint of both: the two tracks were extended to the same point.
C1_SharedEndpoint ==
    (Connected /\ status = "ok") => Ends(NewA) \cap Ends(NewB) # {}

\* C1 witness: a successful connect that moved an endpoint of each track,
\* the two tracks having had no endpoint in common
C1_BothMoved ==
    /\ Connected
    /\ status = "ok"
    /\ Ends(OldA) \cap Ends(OldB) = {}
    /\ NewA # OldA
    /\ NewB # OldB

\* C3: whenever connect fails (wrong number of selected tracks, different
\* layers, parallel lines) the board is what it was before: no endpoint of
\* any track has been written.
C3_FailureLeavesBoard ==
    (calls > 0 /\ status # "ok") =>
        /\ status \in {WrongAmountMsg, LayersMsg, ParallelMsg}
        /\ tracks = before

\* C3 witness: connect refused two selected tracks for their layers, both
\* of which an extension would have moved
C3_LayersRefused ==
    /\ calls > 0
    /\ status = LayersMsg
    /\ Len(Pair) = 2
    /\ ~LinesParallel(OldA, OldB)
    /\ Ends(OldA) \cap Ends(OldB) = {}

\* C4 as the spec states it: connect of two same-layer tracks fails with the
\* parallel error exactly when their lines are parallel and distinct, and
\* succeeds otherwise (tracks on one line included); no other error occurs.
C4_ParallelIffDistinct ==
    Connected =>
        /\ status \in {"ok", ParallelMsg}
        /\ status = ParallelMsg <=>
               (LinesParallel(OldA, OldB) /\ ~SameLine(OldA, OldB))

\* C5 as the spec states it: two tracks on one line are connected at the
\* endpoint of A nearer to B.start: A keeps both endpoints and B gets that
\* endpoint of A.
C5_ColinearShared ==
    (Connected /\ SameLine(OldA, OldB)) =>
        /\ status = "ok"
        /\ NewA = OldA
        /\ \E p \in Ends(OldA) :
               /\ \A q \in Ends(OldA) :
                      distance(OldB.start, p) <= distance(OldB.start, q)
               /\ p \in Ends(NewB)

(***************************************************************************)
(* find_intersection: found[1] is find_intersection(tracks[1], tracks[2]), *)
(* found[2] the result with the arguments swapped.                         *)
(***************************************************************************)
\* C2 as the spec states it: for two tracks whose lines are not parallel
\* find_intersection returns the exact intersection of the lines, each
\* coordinate truncated toward zero.
C2_ExactTruncated ==
    (calls > 0 /\ ~LinesParallel(tracks[1], tracks[2])) =>
        /\ ~found[1].raised
        /\ found[1].point = ExactPoint(tracks[1], tracks[2])

\* C8 as the spec states it: find_intersection(A, B) and
\* find_intersection(B, A) both fail, or both take the colinear path, or
\* both return the same point.
C8_Symmetric ==
    calls > 0 =>
        \/ found[1].raised /\ found[2].raised
        \/ /\ ~found[1].raised
           /\ ~found[2].raised
           /\ \/ found[1].path = "colinear" /\ found[2].path = "colinear"
              \/ found[1].point = found[2].point

(***************************************************************************)
(* line_factory: lines[1] is line_factory(tracks[1]).                      *)
(***************************************************************************)
\* C7: a track with delta_x = 0 is Vertical with x = start.x; one with
\* delta_x # 0 and delta_y = 0 is Horizontal with y = start.y; any other is
\* Slanted with slope delta_y / delta_x (the nearest float) and intercept
\* start.y - slope * start.x.
C7_Classification ==
    calls > 0 =>
        LET t  == tracks[1]
            dx == Dir(t)[1]
            dy == Dir(t)[2]
            l  == lines[1]
        IN  /\ dx = 0 => l = [type |-> "Vertical", x |-> X(t.start)]
            /\ (dx # 0 /\ dy = 0) => l = [type |-> "Horizontal", y |-> Y(t.start)]
            /\ (dx # 0 /\ dy # 0) =>
                   /\ l.type = "Slanted"
                   /\ l.m = FDiv(FromInt(dy), FromInt(dx))
                   /\ NearRatio(l.m, dy, dx)
                   /\ l.n = FSub(FromInt(Y(t.start)), FMul(l.m, FromInt(X(t.start))))

\* C7 witness: the flattest track of the model, delta_y = 1 over
\* delta_x = 2 * MaxFar, is classified Slanted
C7_FlattestSlanted ==
    /\ calls > 0
    /\ Dir(tracks[1]) = <<2 * MaxFar, 1>>
    /\ lines[1].type = "Slanted"

(***************************************************************************)
(* extend_to: before[1] is the track before the last call with a new       *)
(* point, tracks[1] the track now.                                         *)
(***************************************************************************)
\* C6 as the spec states it: extend_to overwrites the endpoint strictly
\* closer to the point and, on a tie, the start; the other endpoint stays.
C6_TieMovesStart ==
    (calls > 0 /\ ~again) =>
        IF distance(point, before[1].start) <= distance(point, before[1].end)
        THEN tracks[1] = [before[1] EXCEPT !.start = point]
        ELSE tracks[1] = [before[1] EXCEPT !.end = point]

\* C6 amended: extend_to overwrites the start when it is strictly closer to
\* the point, and the end otherwise, a tie included; the other endpoint
\* stays.
C6_TieMovesEnd ==
    (calls > 0 /\ ~again) =>
        IF distance(point, before[1].start) < distance(point, before[1].end)
        THEN tracks[1] = [before[1] EXCEPT !.start = point]
        ELSE tracks[1] = [before[1] EXCEPT !.end = point]

\* C6 witness: a call with a point as far from the start as from the end
\* has moved the end
C6_TieMovedEnd ==
    /\ calls > 0
    /\ ~again
    /\ distance(point, before[1].start) = distance(point, before[1].end)
    /\ tracks[1].end = point
    /\ tracks[1].end # before[1].end
    /\ tracks[1].start = before[1].start

\* C9: extend_to is idempotent: the same call once more leaves the track as
\* the first call left it.
C9_Idempotent == [][again' => tracks' = tracks]_vars

\* C9 witness: the call was repeated after a first call on a tie that moved
\* an endpoint
C9_RepeatedAfterTie ==
    /\ again
    /\ distance(point, before[1].start) = distance(point, before[1].end)
    /\ tracks[1] # before[1]
    /\ point \in Ends(tracks[1])

\* C10: a track with start # end still has start # end after any sequence of
\* extend_to calls.
C10_NonDegenerate == \A i \in DOMAIN tracks : tracks[i].start # tracks[i].end

\* C10 witness: after a first call, a second one with a point that is
\* already an endpoint of the track
C10_ExtendedToOwnEndpoint ==
    /\ calls = MaxCalls
    /\ ~again
    /\ point \in Ends(before[1])
    /\ tracks[1].start # tracks[1].end
====
